---- MODULE Spec2Model ----
(***************************************************************************)
(* A model of mysensors/sensor.py: the Sensor class (a node), its child    *)
(* sensors, the desired-state shadow used for smart-sleep nodes, the       *)
(* validated scalar properties and the pickle hooks.                       *)
(*                                                                         *)
(* Python dicts are functions whose DOMAIN is the key set; Python's None   *)
(* is the string "None".  Every operation records what it was called with  *)
(* and how it ended (return value or raised exception) in `last`.          *)
(***************************************************************************)
EXTENDS Integers, FiniteSets, Sequences, TLC

\* ---------------------------------------------------------------- bounds
MaxChildId == 1
\* number of calls made on one Sensor in a run
MaxCalls == 5

\* ---------------------------------------------------------------- inputs
None == "None"
SensorIds == {1}
ChildIds == 0..MaxChildId
\* (child_type, description) pairs handed to add_child_sensor
Presentations == {<<"S_BINARY", "">>, <<"S_INFO", "lcd">>}
ValueTypes == {"V_STATUS", "V_TEXT"}
Payloads == {"", "0", "1"}
BatteryInputs == {-1, 0, 50, 101}
HeartbeatInputs == {-1, 0, 30}
VersionInputs == {"1.4", "2.0", "x"}

EmptyDict == [k \in {} |-> None]

\* dict.get(key): the value, or None when the key is absent
Get(d, key) == IF key \in DOMAIN d THEN d[key] ELSE None

\* d[key] = value
Put(d, key, value) == (key :> value) @@ d

\* The truthiness test, had it been `is not None`
Truthy_notnone(value) == value # None

\* Python truthiness of a payload (None and the empty string are falsy)
Truthy(value) == value # None /\ value # ""

\* ChildSensor.__init__
ChildSensor(child_id, child_type, description) ==
    [id |-> child_id, type |-> child_type,
     description |-> description, values |-> EmptyDict]

\* -------------------------------------------------- external collaborators
\* validation.is_battery_level: accepts a percentage
is_battery_level_ok(value) == value \in 0..100

\* validation.is_heartbeat: accepts a non-negative duration
is_heartbeat_ok(value) == value >= 0

\* validation.safe_is_version: accepts a version token
safe_is_version_ok(value) == value \in {"1.4", "2.0"}

\* Message(...).encode() is not None and Message.validate(protocol_version)
\* passes: V_STATUS takes "0"/"1" in every version, V_TEXT exists from 2.0 on
\* and takes any string.
MessageValid(protocol_version, child_id, value_type, value) ==
    CASE value_type = "V_STATUS" -> value \in {"0", "1"}
      [] value_type = "V_TEXT" -> protocol_version = "2.0"
      [] OTHER -> FALSE

\* ------------------------------------------------------------------ state
VARIABLES sensor_id, children, type, sketch_name, sketch_version,
          battery_level, protocol_version, heartbeat,
          new_state, queue, reboot, last, calls, threads

vars == <<sensor_id, children, type, sketch_name, sketch_version,
          battery_level, protocol_version, heartbeat,
          new_state, queue, reboot, last, calls, threads>>

meta == <<sensor_id, type, sketch_name, sketch_version>>
scalars == <<battery_level, protocol_version, heartbeat>>
transient == <<queue, reboot>>

\* No call is in progress on another thread
NoThreads == [running |-> FALSE]

\* Sensor.__init__
Init ==
    /\ sensor_id \in SensorIds
    /\ children = EmptyDict
    /\ type = None
    /\ sketch_name = None
    /\ sketch_version = None
    /\ battery_level = 0
    /\ protocol_version = "1.4"
    /\ heartbeat = 0
    /\ new_state = EmptyDict
    /\ queue = << >>
    /\ reboot = FALSE
    /\ last = [op |-> "__init__"]
    /\ calls = 0
    /\ threads = NoThreads

\* is_smart_sleep_node, had it tested the children instead of the shadows
is_smart_sleep_node_children == children # EmptyDict

\* Sensor.is_smart_sleep_node: bool(self.new_state)
is_smart_sleep_node == new_state # EmptyDict

\* One more call is made on the sensor
Tick == calls < MaxCalls /\ calls' = calls + 1 /\ UNCHANGED threads

\* validate_child_state, had it used the newest constants instead of those
\* of the sensor's protocol_version
validate_child_state_newest(child_id, value_type, value) ==
    MessageValid("2.0", child_id, value_type, value)

\* Sensor.validate_child_state, as a function of the sensor's version
validate_child_state(child_id, value_type, value) ==
    MessageValid(protocol_version, child_id, value_type, value)

\* ------------------------------------------------------------- operations
\* add_child_sensor, had it replaced a child that already exists
AddChildSensor_overwrite(child_id, child_type, description) ==
    /\ Tick
    /\ children' = Put(children, child_id,
                       ChildSensor(child_id, child_type, description))
    /\ last' = IF child_id \in DOMAIN children
               THEN [op |-> "add_child_sensor", child_id |-> child_id,
                     child_type |-> child_type, description |-> description,
                     raised |-> None, ret_none |-> TRUE]
               ELSE [op |-> "add_child_sensor", child_id |-> child_id,
                     child_type |-> child_type, description |-> description,
                     raised |-> None, ret_none |-> FALSE, ret |-> child_id]
    /\ UNCHANGED <<meta, scalars, new_state, transient>>

\* Sensor.add_child_sensor
AddChildSensor(child_id, child_type, description) ==
    /\ Tick
    /\ IF child_id \in DOMAIN children
       THEN /\ children' = children
            /\ last' = [op |-> "add_child_sensor", child_id |-> child_id,
                        child_type |-> child_type, description |-> description,
                        raised |-> None, ret_none |-> TRUE]
       ELSE /\ children' = Put(children, child_id,
                               ChildSensor(child_id, child_type, description))
            /\ last' = [op |-> "add_child_sensor", child_id |-> child_id,
                        child_type |-> child_type, description |-> description,
                        raised |-> None, ret_none |-> FALSE, ret |-> child_id]
    /\ UNCHANGED <<meta, scalars, new_state, transient>>

\* get_desired_value, had it preferred the actual value to the desired one
get_desired_value_actualfirst(child_id, value_type) ==
    IF child_id \notin DOMAIN children
    THEN [raised |-> "KeyError", ret |-> None]
    ELSE IF is_smart_sleep_node /\ child_id \notin DOMAIN new_state
    THEN [raised |-> "KeyError", ret |-> None]
    ELSE LET value == Get(children[child_id].values, value_type)
         IN IF Truthy(value) \/ ~is_smart_sleep_node
            THEN [raised |-> None, ret |-> value]
            ELSE [raised |-> None,
                  ret |-> Get(new_state[child_id].values, value_type)]

\* The value Sensor.get_desired_value returns, or the exception it raises.
\* (The `is None` test of line 114 never succeeds: children only holds
\* ChildSensor objects.)
get_desired_value(child_id, value_type) ==
    IF child_id \notin DOMAIN children
    THEN [raised |-> "KeyError", ret |-> None]
    ELSE IF is_smart_sleep_node /\ child_id \notin DOMAIN new_state
    THEN [raised |-> "KeyError", ret |-> None]
    ELSE LET value == IF is_smart_sleep_node
                      THEN Get(new_state[child_id].values, value_type)
                      ELSE None
         IN IF Truthy(value)
            THEN [raised |-> None, ret |-> value]
            ELSE [raised |-> None,
                  ret |-> Get(children[child_id].values, value_type)]

\* Sensor.get_desired_value
GetDesiredValue(child_id, value_type) ==
    /\ Tick
    /\ last' = [op |-> "get_desired_value", child_id |-> child_id,
                value_type |-> value_type,
                raised |-> get_desired_value(child_id, value_type).raised,
                ret |-> get_desired_value(child_id, value_type).ret]
    /\ UNCHANGED <<meta, children, scalars, new_state, transient>>

\* The loop of init_smart_sleep_mode, had it not passed the description on
RECURSIVE init_shadows_nodesc(_, _, _)
init_shadows_nodesc(shadows, kids, todo) ==
    IF todo = {}
    THEN shadows
    ELSE LET key == CHOOSE k \in todo : TRUE
             child == kids[key]
             next == IF child.id \in DOMAIN shadows
                     THEN shadows
                     ELSE Put(shadows, child.id,
                              ChildSensor(child.id, child.type, ""))
         IN init_shadows_nodesc(next, kids, todo \ {key})

\* The loop of init_smart_sleep_mode, had it lacked the `continue` for
\* children that already have a shadow
RECURSIVE init_shadows_overwrite(_, _, _)
init_shadows_overwrite(shadows, kids, todo) ==
    IF todo = {}
    THEN shadows
    ELSE LET key == CHOOSE k \in todo : TRUE
             child == kids[key]
             next == Put(shadows, child.id,
                         ChildSensor(child.id, child.type, child.description))
         IN init_shadows_overwrite(next, kids, todo \ {key})

\* The loop of Sensor.init_smart_sleep_mode over the children whose keys are
\* still to be visited
RECURSIVE init_shadows(_, _, _)
init_shadows(shadows, kids, todo) ==
    IF todo = {}
    THEN shadows
    ELSE LET key == CHOOSE k \in todo : TRUE
             child == kids[key]
             next == IF child.id \in DOMAIN shadows
                     THEN shadows
                     ELSE Put(shadows, child.id,
                              ChildSensor(child.id, child.type,
                                          child.description))
         IN init_shadows(next, kids, todo \ {key})

\* Sensor.init_smart_sleep_mode
InitSmartSleepMode ==
    /\ Tick
    /\ new_state' = init_shadows(new_state, children, DOMAIN children)
    /\ last' = [op |-> "init_smart_sleep_mode", raised |-> None]
    /\ UNCHANGED <<meta, children, scalars, transient>>

\* set_child_desired_state, had it stored the value without validating it
set_desired_unvalidated(shadows, child_id, value_type, value) ==
    IF child_id \notin DOMAIN shadows
    THEN shadows
    ELSE [shadows EXCEPT ![child_id].values = Put(@, value_type, value)]

\* set_child_desired_state, had it created the shadow of a child_id that has
\* none instead of returning
set_desired_autocreate(shadows, child_id, value_type, value) ==
    IF ~validate_child_state(child_id, value_type, value)
    THEN shadows
    ELSE IF child_id \notin DOMAIN shadows
    THEN Put(shadows, child_id,
             [id |-> child_id, type |-> None, description |-> "",
              values |-> Put(EmptyDict, value_type, value)])
    ELSE [shadows EXCEPT ![child_id].values = Put(@, value_type, value)]

\* The shadow map Sensor.set_child_desired_state leaves behind
set_desired(shadows, child_id, value_type, value) ==
    IF child_id \notin DOMAIN shadows
    THEN shadows
    ELSE IF ~validate_child_state(child_id, value_type, value)
    THEN shadows
    ELSE [shadows EXCEPT ![child_id].values = Put(@, value_type, value)]

\* Sensor.set_child_desired_state
SetChildDesiredState(child_id, value_type, value) ==
    /\ Tick
    /\ new_state' = set_desired(new_state, child_id, value_type, value)
    /\ last' = [op |-> "set_child_desired_state", child_id |-> child_id,
                value_type |-> value_type, value |-> value, raised |-> None]
    /\ UNCHANGED <<meta, children, scalars, transient>>

\* update_child_value, had it left the desired value in place
clear_desired_skipped(shadows, child_id, value_type) == shadows

\* update_child_value, had it cleared every desired value of the child
clear_desired_allkeys(shadows, child_id, value_type) ==
    IF child_id \notin DOMAIN shadows
    THEN shadows
    ELSE [shadows EXCEPT
            ![child_id].values = [k \in DOMAIN @ \cup {value_type} |-> None]]

\* update_child_value, had it deleted the shadow of the child
clear_desired_drop(shadows, child_id, value_type) ==
    [c \in DOMAIN shadows \ {child_id} |-> shadows[c]]

\* The shadow map Sensor.update_child_value leaves behind (lines 165-172)
clear_desired(shadows, child_id, value_type) ==
    IF child_id \notin DOMAIN shadows
    THEN shadows
    ELSE [shadows EXCEPT ![child_id].values = Put(@, value_type, None)]

\* Sensor.update_child_value
UpdateChildValue(child_id, value_type, value) ==
    /\ Tick
    /\ IF child_id \notin DOMAIN children
       THEN /\ last' = [op |-> "update_child_value", child_id |-> child_id,
                        value_type |-> value_type, value |-> value,
                        raised |-> "KeyError"]
            /\ UNCHANGED <<meta, children, scalars, new_state, transient>>
       ELSE /\ children' = [children EXCEPT
                              ![child_id].values = Put(@, value_type, value)]
            /\ new_state' = clear_desired(new_state, child_id, value_type)
            /\ last' = [op |-> "update_child_value", child_id |-> child_id,
                        value_type |-> value_type, value |-> value,
                        raised |-> None]
            /\ UNCHANGED <<meta, scalars, transient>>

\* Sensor.validate_child_state
ValidateChildState(child_id, value_type, value) ==
    /\ Tick
    /\ last' = [op |-> "validate_child_state", child_id |-> child_id,
                value_type |-> value_type, value |-> value, raised |-> None,
                ret |-> validate_child_state(child_id, value_type, value)]
    /\ UNCHANGED <<meta, children, scalars, new_state, transient>>

\* The battery_level setter, had it assigned the value unvalidated
SetBatteryLevel_unchecked(value) ==
    /\ Tick
    /\ battery_level' = value
    /\ last' = [op |-> "battery_level", value |-> value,
                raised |-> IF is_battery_level_ok(value)
                           THEN None
                           ELSE "ValidationError"]
    /\ UNCHANGED <<meta, children, protocol_version, heartbeat, new_state,
                   transient>>

\* Sensor.battery_level setter
SetBatteryLevel(value) ==
    /\ Tick
    /\ IF is_battery_level_ok(value)
       THEN /\ battery_level' = value
            /\ last' = [op |-> "battery_level", value |-> value,
                        raised |-> None]
       ELSE /\ battery_level' = battery_level
            /\ last' = [op |-> "battery_level", value |-> value,
                        raised |-> "ValidationError"]
    /\ UNCHANGED <<meta, children, protocol_version, heartbeat, new_state,
                   transient>>

\* Sensor.heartbeat setter
SetHeartbeat(value) ==
    /\ Tick
    /\ IF is_heartbeat_ok(value)
       THEN /\ heartbeat' = value
            /\ last' = [op |-> "heartbeat", value |-> value, raised |-> None]
       ELSE /\ heartbeat' = heartbeat
            /\ last' = [op |-> "heartbeat", value |-> value,
                        raised |-> "ValidationError"]
    /\ UNCHANGED <<meta, children, battery_level, protocol_version, new_state,
                   transient>>

\* Sensor.protocol_version setter
SetProtocolVersion(value) ==
    /\ Tick
    /\ IF safe_is_version_ok(value)
       THEN /\ protocol_version' = value
            /\ last' = [op |-> "protocol_version", value |-> value,
                        raised |-> None]
       ELSE /\ protocol_version' = protocol_version
            /\ last' = [op |-> "protocol_version", value |-> value,
                        raised |-> "ValidationError"]
    /\ UNCHANGED <<meta, children, battery_level, heartbeat, new_state,
                   transient>>

\* The instance __dict__ of the Sensor
Dict ==
    [sensor_id |-> sensor_id, children |-> children, type |-> type,
     sketch_name |-> sketch_name, sketch_version |-> sketch_version,
     _battery_level |-> battery_level,
     _protocol_version |-> protocol_version,
     _heartbeat |-> heartbeat,
     new_state |-> new_state, queue |-> queue, reboot |-> reboot]

BackingFields == <<"_battery_level", "_heartbeat", "_protocol_version">>

\* attr[1:] for an attr that starts with "_"
StripUnderscore(attr) ==
    CASE attr = "_battery_level" -> "battery_level"
      [] attr = "_heartbeat" -> "heartbeat"
      [] attr = "_protocol_version" -> "protocol_version"
      [] OTHER -> attr

\* One round of the loop of Sensor.__getstate__: pop attr and store its
\* value under the public name.  (A backing field that is present is never
\* None: the validators return an int or a str.)
getstate_pop(state, attr) ==
    LET rest == [k \in DOMAIN state \ {attr} |-> state[k]]
    IN IF attr \in DOMAIN state
       THEN Put(rest, StripUnderscore(attr), state[attr])
       ELSE rest

\* The record Sensor.__getstate__ returns
getstate ==
    getstate_pop(getstate_pop(getstate_pop(Dict, BackingFields[1]),
                              BackingFields[2]), BackingFields[3])

\* Sensor.__getstate__
GetState ==
    /\ Tick
    /\ last' = [op |-> "__getstate__", raised |-> None, ret |-> getstate]
    /\ UNCHANGED <<meta, children, scalars, new_state, transient>>

\* A record written before the heartbeat field existed
WithoutHeartbeat(record) ==
    [k \in DOMAIN record \ {"heartbeat"} |-> record[k]]

\* A record written while a message was queued and a reboot was requested
\* (queue and reboot are plain attributes, lines 32-33)
WithTransient(record) ==
    [k \in DOMAIN record |->
        CASE k = "queue" -> <<"msg">>
          [] k = "reboot" -> TRUE
          [] OTHER -> record[k]]

\* The records a Sensor may be loaded from, given a record just written
Loadable(record) ==
    {record, WithoutHeartbeat(record), WithTransient(record)}

\* __setstate__, had it lacked the reset of lines 54-56
SetState_noreset(state) ==
    /\ Tick
    /\ sensor_id' = state.sensor_id
    /\ children' = state.children
    /\ type' = state.type
    /\ sketch_name' = state.sketch_name
    /\ sketch_version' = state.sketch_version
    /\ battery_level' = state.battery_level
    /\ protocol_version' = state.protocol_version
    /\ new_state' = state.new_state
    /\ queue' = state.queue
    /\ reboot' = state.reboot
    /\ heartbeat' = IF "heartbeat" \in DOMAIN state
                    THEN state.heartbeat
                    ELSE 0
    /\ last' = [op |-> "__setstate__", state |-> state, raised |-> None]

\* __setstate__, had it reset the children together with the shadows
SetState_nochildren(state) ==
    /\ Tick
    /\ sensor_id' = state.sensor_id
    /\ children' = EmptyDict
    /\ type' = state.type
    /\ sketch_name' = state.sketch_name
    /\ sketch_version' = state.sketch_version
    /\ battery_level' = state.battery_level
    /\ protocol_version' = state.protocol_version
    /\ new_state' = EmptyDict
    /\ queue' = << >>
    /\ reboot' = FALSE
    /\ heartbeat' = IF "heartbeat" \in DOMAIN state
                    THEN state.heartbeat
                    ELSE 0
    /\ last' = [op |-> "__setstate__", state |-> state, raised |-> None]

\* __setstate__, had it defaulted the heartbeat of every record
SetState_zeroheartbeat(state) ==
    /\ Tick
    /\ sensor_id' = state.sensor_id
    /\ children' = state.children
    /\ type' = state.type
    /\ sketch_name' = state.sketch_name
    /\ sketch_version' = state.sketch_version
    /\ battery_level' = state.battery_level
    /\ protocol_version' = state.protocol_version
    /\ new_state' = EmptyDict
    /\ queue' = << >>
    /\ reboot' = FALSE
    /\ heartbeat' = 0
    /\ last' = [op |-> "__setstate__", state |-> state, raised |-> None]

\* Sensor.__setstate__ on a fresh object: every key of the record is set
\* with setattr (the three public scalar names go through their setters),
\* then the transient attributes are reset and a missing heartbeat is
\* defaulted.
SetState(state) ==
    /\ Tick
    /\ IF \/ ~is_battery_level_ok(state.battery_level)
          \/ ~safe_is_version_ok(state.protocol_version)
          \/ "heartbeat" \in DOMAIN state /\ ~is_heartbeat_ok(state.heartbeat)
       THEN /\ last' = [op |-> "__setstate__", state |-> state,
                        raised |-> "ValidationError"]
            /\ UNCHANGED <<meta, children, scalars, new_state, transient>>
       ELSE /\ sensor_id' = state.sensor_id
            /\ children' = state.children
            /\ type' = state.type
            /\ sketch_name' = state.sketch_name
            /\ sketch_version' = state.sketch_version
            /\ battery_level' = state.battery_level
            /\ protocol_version' = state.protocol_version
            /\ new_state' = EmptyDict
            /\ queue' = << >>
            /\ reboot' = FALSE
            /\ heartbeat' = IF "heartbeat" \in DOMAIN state
                            THEN state.heartbeat
                            ELSE 0
            /\ last' = [op |-> "__setstate__", state |-> state, raised |-> None]

\* Unpickling the record the last call wrote (or its older form)
Load ==
    /\ last.op = "__getstate__"
    /\ \E state \in Loadable(last.ret) : SetState(state)

Next ==
    \/ \E c \in ChildIds, p \in Presentations : AddChildSensor(c, p[1], p[2])
    \/ \E c \in ChildIds, vt \in ValueTypes : GetDesiredValue(c, vt)
    \/ InitSmartSleepMode
    \/ \E c \in ChildIds, vt \in ValueTypes, v \in Payloads :
          SetChildDesiredState(c, vt, v)
    \/ \E c \in ChildIds, vt \in ValueTypes, v \in Payloads :
          UpdateChildValue(c, vt, v)
    \/ \E c \in ChildIds, vt \in ValueTypes, v \in Payloads :
          ValidateChildState(c, vt, v)
    \/ \E v \in BatteryInputs : SetBatteryLevel(v)
    \/ \E v \in HeartbeatInputs : SetHeartbeat(v)
    \/ \E v \in VersionInputs : SetProtocolVersion(v)
    \/ GetState
    \/ Load

Spec == Init /\ [][Next]_vars

\* ------------------------------------------- two calls on two threads
\* set_child_desired_state(child_id, value_type, value) runs on one thread
\* and update_child_value(child_id, value_type, value) on another, against
\* one Sensor.  Each thread advances by one read or one write of the sensor
\* at a time; `child` is the thread's local variable of that name.

\* The Sensors the two calls may find: one child, with or without a shadow
ConcChildren ==
    {Put(EmptyDict, 0, [ChildSensor(0, "S_BINARY", "") EXCEPT !.values = vs]) :
        vs \in {EmptyDict, Put(EmptyDict, "V_STATUS", "0")}}

ConcShadows ==
    {EmptyDict} \cup
    {Put(EmptyDict, 0, [ChildSensor(0, "S_BINARY", "") EXCEPT !.values = vs]) :
        vs \in {EmptyDict, Put(EmptyDict, "V_STATUS", "1"),
                Put(Put(EmptyDict, "V_STATUS", "1"), "V_TEXT", "1")}}

Calls == [child_id : ChildIds, value_type : ValueTypes, value : Payloads]

ConcInit ==
    /\ sensor_id \in SensorIds
    /\ children \in ConcChildren
    /\ type = None
    /\ sketch_name = None
    /\ sketch_version = None
    /\ battery_level = 0
    /\ protocol_version \in {"1.4", "2.0"}
    /\ heartbeat = 0
    /\ new_state \in ConcShadows
    /\ queue = << >>
    /\ reboot = FALSE
    /\ last = [op |-> "__init__"]
    /\ calls = 0
    /\ \E s \in Calls, u \in Calls :
          threads = [running |-> TRUE,
                     set |-> [pc |-> "142", args |-> s],
                     upd |-> [pc |-> "162", args |-> u],
                     start |-> [children |-> children,
                                new_state |-> new_state],
                     mixed |-> FALSE]

ConcFrame == UNCHANGED <<meta, scalars, transient, last, calls>>

InCall(thread) == thread.pc \notin {"142", "162", "done"}

\* The set thread moves to pc, with its locals updated to frame
SetThreadTo(frame) ==
    threads' = [threads EXCEPT
                  !.set = frame,
                  !.mixed = @ \/ InCall(threads.upd)]

\* The update thread moves to pc, with its locals updated to frame
UpdThreadTo(frame) ==
    threads' = [threads EXCEPT
                  !.upd = frame,
                  !.mixed = @ \/ InCall(threads.set)]

\* line 142: if child_id not in self.new_state: return
ConcSetCheck ==
    /\ threads.running /\ threads.set.pc = "142"
    /\ SetThreadTo([threads.set EXCEPT
                      !.pc = IF threads.set.args.child_id \in DOMAIN new_state
                             THEN "153" ELSE "done"])
    /\ UNCHANGED <<children, new_state>>
    /\ ConcFrame

\* line 153: if not self.validate_child_state(...): return
ConcSetValidate ==
    /\ threads.running /\ threads.set.pc = "153"
    /\ SetThreadTo([threads.set EXCEPT
                      !.pc = IF validate_child_state(
                                   threads.set.args.child_id,
                                   threads.set.args.value_type,
                                   threads.set.args.value)
                             THEN "157" ELSE "done"])
    /\ UNCHANGED <<children, new_state>>
    /\ ConcFrame

\* line 157: child = self.new_state[child_id]
ConcSetRead ==
    /\ threads.running /\ threads.set.pc = "157"
    /\ SetThreadTo([pc |-> "158", args |-> threads.set.args,
                    child |-> new_state[threads.set.args.child_id]])
    /\ UNCHANGED <<children, new_state>>
    /\ ConcFrame

\* line 158, had `child` been a copy of the shadow that is written back
ConcSetStore_copy ==
    /\ threads.running /\ threads.set.pc = "158"
    /\ new_state' =
         [new_state EXCEPT
            ![threads.set.child.id] =
               [threads.set.child EXCEPT
                  !.values = Put(@, threads.set.args.value_type,
                                 threads.set.args.value)]]
    /\ SetThreadTo([threads.set EXCEPT !.pc = "done"])
    /\ UNCHANGED children
    /\ ConcFrame

\* line 158: child.values[value_type] = value, a write into the object that
\* `child` refers to
ConcSetStore ==
    /\ threads.running /\ threads.set.pc = "158"
    /\ new_state' =
         [new_state EXCEPT
            ![threads.set.child.id].values =
               Put(@, threads.set.args.value_type, threads.set.args.value)]
    /\ SetThreadTo([threads.set EXCEPT !.pc = "done"])
    /\ UNCHANGED children
    /\ ConcFrame

\* line 162: child = self.children[child_id] (KeyError ends the call)
ConcUpdRead ==
    /\ threads.running /\ threads.upd.pc = "162"
    /\ IF threads.upd.args.child_id \in DOMAIN children
       THEN UpdThreadTo([pc |-> "163", args |-> threads.upd.args,
                         child |-> children[threads.upd.args.child_id]])
       ELSE UpdThreadTo([threads.upd EXCEPT !.pc = "done"])
    /\ UNCHANGED <<children, new_state>>
    /\ ConcFrame

\* line 163: child.values[value_type] = value
ConcUpdStore ==
    /\ threads.running /\ threads.upd.pc = "163"
    /\ children' =
         [children EXCEPT
            ![threads.upd.child.id].values =
               Put(@, threads.upd.args.value_type, threads.upd.args.value)]
    /\ UpdThreadTo([threads.upd EXCEPT !.pc = "165"])
    /\ UNCHANGED new_state
    /\ ConcFrame

\* line 165: if child_id not in self.new_state: return
ConcUpdCheck ==
    /\ threads.running /\ threads.upd.pc = "165"
    /\ UpdThreadTo([threads.upd EXCEPT
                      !.pc = IF threads.upd.args.child_id \in DOMAIN new_state
                             THEN "170" ELSE "done"])
    /\ UNCHANGED <<children, new_state>>
    /\ ConcFrame

\* line 170: new_state_child = self.new_state[child_id]
ConcUpdReadShadow ==
    /\ threads.running /\ threads.upd.pc = "170"
    /\ UpdThreadTo([pc |-> "172", args |-> threads.upd.args,
                    child |-> threads.upd.child,
                    new_state_child |-> new_state[threads.upd.args.child_id]])
    /\ UNCHANGED <<children, new_state>>
    /\ ConcFrame

\* line 172: new_state_child.values[value_type] = None
ConcUpdClear ==
    /\ threads.running /\ threads.upd.pc = "172"
    /\ new_state' =
         [new_state EXCEPT
            ![threads.upd.new_state_child.id].values =
               Put(@, threads.upd.args.value_type, None)]
    /\ UpdThreadTo([threads.upd EXCEPT !.pc = "done"])
    /\ UNCHANGED children
    /\ ConcFrame

ConcNext ==
    \/ ConcSetCheck
    \/ ConcSetValidate
    \/ ConcSetRead
    \/ ConcSetStore
    \/ ConcUpdRead
    \/ ConcUpdStore
    \/ ConcUpdCheck
    \/ ConcUpdReadShadow
    \/ ConcUpdClear

ConcSpec == ConcInit /\ [][ConcNext]_vars

\* children and new_state after a whole set_child_desired_state call
SerialSet(state, call) ==
    [state EXCEPT
       !.new_state = set_desired(@, call.child_id, call.value_type,
                                 call.value)]

\* children and new_state after a whole update_child_value call
SerialUpdate(state, call) ==
    IF call.child_id \notin DOMAIN state.children
    THEN state
    ELSE [children |-> [state.children EXCEPT
                          ![call.child_id].values =
                             Put(@, call.value_type, call.value)],
          new_state |-> clear_desired(state.new_state, call.child_id,
                                      call.value_type)]

\* What the two serial orders of the calls leave behind
SerialOutcomes ==
    {SerialUpdate(SerialSet(threads.start, threads.set.args),
                  threads.upd.args),
     SerialSet(SerialUpdate(threads.start, threads.upd.args),
               threads.set.args)}

ConcDone ==
    threads.running /\ threads.set.pc = "done" /\ threads.upd.pc = "done"

ConcSerial ==
    [children |-> children, new_state |-> new_state] \in SerialOutcomes

\* Both calls address the same child and value type
SameEntry ==
    /\ threads.set.args.child_id = threads.upd.args.child_id
    /\ threads.set.args.value_type = threads.upd.args.value_type

\* ----------------------------------------------------------------- claims
Pending(shadows, child_id, value_type) ==
    IF child_id \in DOMAIN shadows
    THEN Get(shadows[child_id].values, value_type)
    ELSE None

Actual(child_id, value_type) == Get(children[child_id].values, value_type)

\* C1: get_desired_value on a child_id that is a key of children never
\* fails; it returns the shadow's value when the node is a smart-sleep node
\* and that value is truthy, and the actual value otherwise.
C1_GetDesiredValueTotal ==
    (last.op = "get_desired_value" /\ last.child_id \in DOMAIN children)
    => /\ last.raised = None
       /\ last.ret =
            IF /\ is_smart_sleep_node
               /\ Truthy(Pending(new_state, last.child_id, last.value_type))
            THEN Pending(new_state, last.child_id, last.value_type)
            ELSE Actual(last.child_id, last.value_type)

\* C2 as stated: when init_smart_sleep_mode returns, every child has a
\* shadow with an empty values map and the child's type and description.
C2_InitLeavesEmptyShadows ==
    last.op = "init_smart_sleep_mode"
    => \A c \in DOMAIN children :
          /\ c \in DOMAIN new_state
          /\ new_state[c].values = EmptyDict
          /\ new_state[c].type = children[c].type
          /\ new_state[c].description = children[c].description

\* C2 amended: when init_smart_sleep_mode returns, every child has a shadow
\* with the child's id, type and description; a shadow created by this call
\* has an empty values map, a shadow that existed before keeps its values.
C2_InitMirrorsChildren ==
    [][last'.op = "init_smart_sleep_mode"
       => \A c \in DOMAIN children' :
             /\ c \in DOMAIN new_state'
             /\ new_state'[c].id = children'[c].id
             /\ new_state'[c].type = children'[c].type
             /\ new_state'[c].description = children'[c].description
             /\ new_state'[c].values =
                  IF c \in DOMAIN new_state
                  THEN new_state[c].values
                  ELSE EmptyDict]_vars

C2_Witness ==
    /\ last.op = "init_smart_sleep_mode"
    /\ \E c \in DOMAIN new_state : new_state[c].values # EmptyDict
    /\ \E c \in DOMAIN new_state : new_state[c].values = EmptyDict

\* C3: set_child_desired_state raises nothing and never touches children;
\* it changes desired_state only when child_id has a shadow and the value
\* validates, and then only the entry values[value_type] of that shadow,
\* which becomes value.
C3_SetDesiredFrame ==
    [][last'.op = "set_child_desired_state"
       => LET c == last'.child_id
              vt == last'.value_type
              v == last'.value
          IN /\ last'.raised = None
             /\ UNCHANGED <<meta, children, scalars, transient>>
             /\ IF /\ c \in DOMAIN new_state
                   /\ MessageValid(protocol_version, c, vt, v)
                THEN /\ DOMAIN new_state' = DOMAIN new_state
                     /\ \A d \in DOMAIN new_state \ {c} :
                           new_state'[d] = new_state[d]
                     /\ new_state'[c].id = new_state[c].id
                     /\ new_state'[c].type = new_state[c].type
                     /\ new_state'[c].description = new_state[c].description
                     /\ DOMAIN new_state'[c].values =
                          DOMAIN new_state[c].values \cup {vt}
                     /\ new_state'[c].values[vt] = v
                     /\ \A w \in DOMAIN new_state[c].values \ {vt} :
                           new_state'[c].values[w] = new_state[c].values[w]
                ELSE new_state' = new_state
             /\ ~is_smart_sleep_node => new_state' = new_state]_vars

C3_Witness ==
    /\ last.op = "set_child_desired_state"
    /\ last.child_id \in DOMAIN new_state
    /\ Pending(new_state, last.child_id, last.value_type) = last.value
    /\ \E w \in ValueTypes \ {last.value_type} :
          Truthy(Pending(new_state, last.child_id, w))

\* C4: update_child_value on a known child stores the value as the actual
\* value and leaves the shadow's entry for that value type unset, whatever
\* was desired before; on an unknown child it fails with a lookup error and
\* changes nothing.
C4_UpdateStoresAndClears ==
    [][last'.op = "update_child_value"
       => LET c == last'.child_id
              vt == last'.value_type
              v == last'.value
          IN IF c \in DOMAIN children
             THEN /\ last'.raised = None
                  /\ c \in DOMAIN children'
                  /\ vt \in DOMAIN children'[c].values
                  /\ children'[c].values[vt] = v
                  /\ DOMAIN new_state' = DOMAIN new_state
                  /\ c \in DOMAIN new_state
                       => Pending(new_state', c, vt) = None
             ELSE /\ last'.raised = "KeyError"
                  /\ UNCHANGED <<meta, children, scalars, new_state,
                                 transient>>]_vars

C4_Witness ==
    /\ last.op = "update_child_value"
    /\ last.raised = None
    /\ last.child_id \in DOMAIN new_state
    /\ last.value_type \in DOMAIN new_state[last.child_id].values
    /\ new_state[last.child_id].values[last.value_type] = None
    /\ Actual(last.child_id, last.value_type) = last.value

\* C5: every key of desired_state is a key of children.
C5_ShadowsHaveChildren == DOMAIN new_state \subseteq DOMAIN children

C5_Witness ==
    /\ DOMAIN new_state # {}
    /\ DOMAIN new_state # DOMAIN children

\* C6: is_smart_sleep_node is true exactly when desired_state has at least
\* one entry.
C6_SmartSleepIffShadows ==
    is_smart_sleep_node <=> Cardinality(DOMAIN new_state) > 0

C6_Witness == is_smart_sleep_node /\ last.op = "init_smart_sleep_mode"

\* C7: init_smart_sleep_mode leaves every existing shadow as it was, adds a
\* shadow exactly for the children that had none, and a second call right
\* after it changes nothing.
C7_InitIdempotent ==
    [][last'.op = "init_smart_sleep_mode"
       => /\ \A c \in DOMAIN new_state :
                c \in DOMAIN new_state' /\ new_state'[c] = new_state[c]
          /\ DOMAIN new_state' =
               DOMAIN new_state \cup {children[k].id : k \in DOMAIN children}
          /\ init_shadows(new_state', children', DOMAIN children')
               = new_state']_vars

C7_Witness ==
    /\ last.op = "init_smart_sleep_mode"
    /\ \E c \in DOMAIN new_state, vt \in ValueTypes :
          Truthy(Pending(new_state, c, vt))

\* C8: add_child_sensor with a child_id already in children returns nothing,
\* raises nothing and changes no state; with an unused child_id it inserts a
\* child of the given type and description with empty values, returns
\* child_id and changes nothing else.
C8_AddChildFrame ==
    [][last'.op = "add_child_sensor"
       => LET c == last'.child_id
          IN /\ last'.raised = None
             /\ UNCHANGED <<meta, scalars, new_state, transient>>
             /\ IF c \in DOMAIN children
                THEN last'.ret_none /\ children' = children
                ELSE /\ ~last'.ret_none
                     /\ last'.ret = c
                     /\ DOMAIN children' = DOMAIN children \cup {c}
                     /\ \A d \in DOMAIN children : children'[d] = children[d]
                     /\ children'[c] =
                          [id |-> c, type |-> last'.child_type,
                           description |-> last'.description,
                           values |-> EmptyDict]]_vars

C8_Witness ==
    /\ last.op = "add_child_sensor"
    /\ last.ret_none
    /\ children[last.child_id].values # EmptyDict
    /\ children[last.child_id].type # last.child_type

\* C9: battery_level, heartbeat and protocol_version always hold a value
\* their validator accepts; a setter called with a rejected value raises a
\* validation error and changes no field.
C9_ScalarsAlwaysValid ==
    /\ [](/\ is_battery_level_ok(battery_level)
          /\ is_heartbeat_ok(heartbeat)
          /\ safe_is_version_ok(protocol_version))
    /\ [][/\ (last'.op = "battery_level" /\ ~is_battery_level_ok(last'.value))
             => /\ last'.raised = "ValidationError"
                /\ UNCHANGED <<meta, children, scalars, new_state, transient>>
          /\ (last'.op = "heartbeat" /\ ~is_heartbeat_ok(last'.value))
             => /\ last'.raised = "ValidationError"
                /\ UNCHANGED <<meta, children, scalars, new_state, transient>>
          /\ (last'.op = "protocol_version"
                /\ ~safe_is_version_ok(last'.value))
             => /\ last'.raised = "ValidationError"
                /\ UNCHANGED <<meta, children, scalars, new_state,
                               transient>>]_vars

C9_Witness ==
    /\ last.op = "battery_level"
    /\ last.raised = "ValidationError"
    /\ battery_level = 50
    /\ heartbeat = 30
    /\ protocol_version = "2.0"

\* C10: the record __getstate__ returns holds none of the transient fields
\* queue, reboot and new_state.
C10_SavedRecordOmitsTransient ==
    last.op = "__getstate__"
    => DOMAIN last.ret \cap {"queue", "reboot", "new_state"} = {}

\* C11: after a Sensor is loaded from a saved record, whatever the record
\* holds, desired_state is empty, the queue is empty and reboot is false, so
\* the loaded node is not a smart-sleep node.
C11_LoadResetsTransient ==
    (last.op = "__setstate__" /\ last.raised = None)
    => /\ new_state = EmptyDict
       /\ queue = << >>
       /\ reboot = FALSE
       /\ ~is_smart_sleep_node

C11_Witness ==
    /\ last.op = "__setstate__"
    /\ last.raised = None
    /\ last.state.new_state # EmptyDict
    /\ last.state.queue # << >>
    /\ last.state.reboot

\* C12: loading the record that was saved from a Sensor yields the same
\* sensor_id, type, sketch_name, sketch_version, children, battery_level,
\* heartbeat and protocol_version.
C12_SaveLoadRoundTrip ==
    [][(last.op = "__getstate__" /\ last'.op = "__setstate__"
          /\ last'.state = last.ret)
       => /\ last'.raised = None
          /\ UNCHANGED <<sensor_id, type, sketch_name, sketch_version,
                         children, battery_level, heartbeat,
                         protocol_version>>]_vars

C12_Witness ==
    /\ last.op = "__setstate__"
    /\ last.raised = None
    /\ "heartbeat" \in DOMAIN last.state
    /\ \E c \in DOMAIN children : children[c].values # EmptyDict
    /\ heartbeat = 30

\* C13: loading a record without a heartbeat field yields heartbeat 0;
\* loading a record with a heartbeat field yields that heartbeat.
C13_HeartbeatDefault ==
    (last.op = "__setstate__" /\ last.raised = None)
    => heartbeat = IF "heartbeat" \in DOMAIN last.state
                   THEN last.state.heartbeat
                   ELSE 0

C13_Witness ==
    /\ last.op = "__setstate__"
    /\ last.raised = None
    /\ "heartbeat" \notin DOMAIN last.state
    /\ heartbeat = 0
    /\ battery_level = 50

\* C14: a desired-shadow entry (child, value_type) of a Sensor object becomes
\* Pending only by a successful set_child_desired_state for that child and
\* value type, returns to Unset only by update_child_value for that child
\* and value type, and is changed by no other call.  (__setstate__ builds a
\* new object and is not a step of an entry's life.)
C14_EntryStateMachine ==
    [][last'.op # "__setstate__"
       => \A c \in ChildIds, vt \in ValueTypes :
             LET old == Pending(new_state, c, vt)
                 new == Pending(new_state', c, vt)
                 set == /\ last'.op = "set_child_desired_state"
                        /\ last'.child_id = c
                        /\ last'.value_type = vt
                        /\ c \in DOMAIN new_state
                        /\ MessageValid(protocol_version, c, vt, last'.value)
                 upd == /\ last'.op = "update_child_value"
                        /\ last'.child_id = c
                        /\ last'.value_type = vt
                        /\ last'.raised = None
             IN /\ set => new = last'.value
                /\ upd => new = None
                /\ (~set /\ ~upd) => new = old]_vars

C14_Witness ==
    /\ last.op = "set_child_desired_state"
    /\ Pending(new_state, last.child_id, last.value_type) = last.value
    /\ last.child_id \in DOMAIN children
    /\ Actual(last.child_id, last.value_type) # None

\* The step is update_child_value(c, vt, .) on a known child
IsUpdateOf(c, vt) ==
    /\ last'.op = "update_child_value"
    /\ last'.child_id = c
    /\ last'.value_type = vt
    /\ last'.raised = None

\* The step is a set_child_desired_state(c, vt, .) that stores its value
IsStoringSetOf(c, vt) ==
    /\ last'.op = "set_child_desired_state"
    /\ last'.child_id = c
    /\ last'.value_type = vt
    /\ c \in DOMAIN new_state
    /\ MessageValid(protocol_version, c, vt, last'.value)

\* C15 as stated: once set_child_desired_state(c, vt, v) has stored a truthy
\* v, get_desired_value(c, vt) returns v in every later state of the Sensor
\* object up to the next update_child_value(c, vt, w), and returns w right
\* after that update.
C15_DesiredHeldUntilUpdate ==
    [][last'.op # "__setstate__"
       => \A c \in DOMAIN new_state, vt \in ValueTypes :
             LET v == Pending(new_state, c, vt)
             IN /\ (IsStoringSetOf(c, vt) /\ Truthy(last'.value))
                     => get_desired_value(c, vt)'
                          = [raised |-> None, ret |-> last'.value]
                /\ (Truthy(v) /\ ~IsUpdateOf(c, vt))
                     => get_desired_value(c, vt)'
                          = [raised |-> None, ret |-> v]
                /\ IsUpdateOf(c, vt)
                     => get_desired_value(c, vt)'
                          = [raised |-> None, ret |-> last'.value]]_vars

\* C15 amended: once set_child_desired_state(c, vt, v) has stored a truthy
\* v, get_desired_value(c, vt) returns v in every later state of the Sensor
\* object up to the next update_child_value(c, vt, w) or the next
\* set_child_desired_state(c, vt, .) that stores a value, and returns w right
\* after that update.
C15_DesiredHeldUntilUpdateOrSet ==
    [][last'.op # "__setstate__"
       => \A c \in DOMAIN new_state, vt \in ValueTypes :
             LET v == Pending(new_state, c, vt)
             IN /\ (IsStoringSetOf(c, vt) /\ Truthy(last'.value))
                     => get_desired_value(c, vt)'
                          = [raised |-> None, ret |-> last'.value]
                /\ (Truthy(v) /\ ~IsUpdateOf(c, vt) /\ ~IsStoringSetOf(c, vt))
                     => get_desired_value(c, vt)'
                          = [raised |-> None, ret |-> v]
                /\ IsUpdateOf(c, vt)
                     => get_desired_value(c, vt)'
                          = [raised |-> None, ret |-> last'.value]]_vars

C15_Witness ==
    /\ last.op = "get_desired_value"
    /\ last.raised = None
    /\ Truthy(Pending(new_state, last.child_id, last.value_type))
    /\ last.ret = Pending(new_state, last.child_id, last.value_type)
    /\ Actual(last.child_id, last.value_type) # None
    /\ Actual(last.child_id, last.value_type) # last.ret

\* C16: a set_child_desired_state(c, vt, v) that stores a falsy v leaves v
\* in the shadow, yet get_desired_value(c, vt) returns the child's actual
\* value (or nothing), as it does for an unset entry.
C16_FalsyDesiredReadsAsUnset ==
    [][\A c \in DOMAIN new_state', vt \in ValueTypes :
          /\ (IsStoringSetOf(c, vt) /\ last'.value = "")
                => /\ vt \in DOMAIN new_state'[c].values
                   /\ new_state'[c].values[vt] = ""
          /\ Pending(new_state', c, vt) \in {"", None}
                => get_desired_value(c, vt)'
                     = [raised |-> None,
                        ret |-> Get(children'[c].values, vt)]]_vars

C16_Witness ==
    /\ last.op = "set_child_desired_state"
    /\ last.value = ""
    /\ last.child_id \in DOMAIN new_state
    /\ last.value_type \in DOMAIN new_state[last.child_id].values
    /\ new_state[last.child_id].values[last.value_type] = ""
    /\ Actual(last.child_id, last.value_type) = "1"

\* C17: during the life of a Sensor object the key sets of children and of
\* desired_state only grow, the id, type and description of an existing
\* child and of an existing shadow never change, and is_smart_sleep_node,
\* once true, stays true.
C17_KeysOnlyGrow ==
    [][last'.op # "__setstate__"
       => /\ DOMAIN children \subseteq DOMAIN children'
          /\ DOMAIN new_state \subseteq DOMAIN new_state'
          /\ \A c \in DOMAIN children :
                /\ children'[c].id = children[c].id
                /\ children'[c].type = children[c].type
                /\ children'[c].description = children[c].description
          /\ \A c \in DOMAIN new_state :
                /\ new_state'[c].id = new_state[c].id
                /\ new_state'[c].type = new_state[c].type
                /\ new_state'[c].description = new_state[c].description
          /\ is_smart_sleep_node => is_smart_sleep_node']_vars

C17_Witness ==
    /\ last.op = "update_child_value"
    /\ last.raised = None
    /\ Cardinality(DOMAIN children) = 2
    /\ DOMAIN new_state = DOMAIN children
    /\ is_smart_sleep_node

\* C18: on a smart-sleep node every child has a shadow: whenever
\* is_smart_sleep_node is true the key set of desired_state equals the key
\* set of children.
C18_SmartSleepShadowsAllChildren ==
    is_smart_sleep_node => DOMAIN new_state = DOMAIN children

\* C19 as stated: every pending desired value is one validate_child_state
\* accepts under the sensor's current protocol_version.
C19_PendingValidNow ==
    \A c \in DOMAIN new_state :
       \A vt \in DOMAIN new_state[c].values :
          new_state[c].values[vt] # None
          => validate_child_state(c, vt, new_state[c].values[vt])

\* C19 amended: every pending desired value was accepted by
\* validate_child_state under the protocol_version the sensor had when the
\* value was set.
C19_PendingValidWhenSet ==
    [][\A c \in DOMAIN new_state', vt \in ValueTypes :
          LET new == Pending(new_state', c, vt)
          IN (new # None /\ new # Pending(new_state, c, vt))
             => /\ last'.op = "set_child_desired_state"
                /\ protocol_version' = protocol_version
                /\ MessageValid(protocol_version, c, vt, new)]_vars

C19_Witness ==
    /\ last.op = "protocol_version"
    /\ last.raised = None
    /\ protocol_version = "1.4"
    /\ \E c \in DOMAIN new_state : Pending(new_state, c, "V_TEXT") # None

====
